---------------------------- MODULE Spec2Model ----------------------------
(***************************************************************************)
(* A model of gammapy/utils/interpolation.py: the interpolation scales     *)
(* (LinearScale, LogScale, SqrtScale with their unit memo), the            *)
(* ScaledRegularGridInterpolator built on scipy's RegularGridInterpolator  *)
(* and interp1d, and interpolate_likelihood_profile.                       *)
(*                                                                         *)
(* Numbers.  A float is modelled by an exact number:                       *)
(*   [k |-> "rat",  n, d]   the rational n/d (d > 0, lowest terms)         *)
(*   [k |-> "pow2", n, d]   the real 2^(n/d), kept symbolic when it is not *)
(*                          a small rational                               *)
(*   [k |-> "nan",  n, d]   NaN                                            *)
(* Logarithms are taken in units of ln 2 (np.log(x) = ln2 * log2(x)); the  *)
(* linear interpolation done between np.log and np.exp commutes with that  *)
(* constant factor, so exp(interp(log x)) is computed exactly.  In these   *)
(* units np.finfo(np.float32).tiny = 2^-126 has logarithm -126.            *)
(* Inputs of np.sqrt and np.log are drawn from the numbers whose image is  *)
(* again such a number (squares, powers of two).                           *)
(***************************************************************************)
EXTENDS Integers, Sequences, FiniteSets, TLC

VARIABLES
    interp,     \* the ScaledRegularGridInterpolator (NoObject before construction)
    args,       \* the arguments the interpolator was constructed with
    outcome,    \* what the last operation returned or raised
    sc,         \* a stand-alone InterpolationScale instance
    scan,       \* the arguments of interpolate_likelihood_profile
    threads     \* the queries in flight, each with its position in __call__

vars == <<interp, args, outcome, sc, scan, threads>>

--------------------------------------------------------------------------
(* Exact arithmetic *)

Abs(i) == IF i < 0 THEN -i ELSE i

Sgn(i) == IF i < 0 THEN -1 ELSE IF i > 0 THEN 1 ELSE 0

RECURSIVE GCD(_, _)
GCD(a, b) == IF b = 0 THEN a ELSE GCD(b, a % b)

Rat(n, d) ==
    LET s == IF d < 0 THEN -1 ELSE 1
        g == GCD(Abs(n), Abs(d))
    IN  [k |-> "rat", n |-> (s * n) \div g, d |-> (s * d) \div g]

Whole(i) == [k |-> "rat", n |-> i, d |-> 1]

NaN == [k |-> "nan", n |-> 0, d |-> 1]

Pow2(e) == [k |-> "pow2", n |-> e.n, d |-> e.d]

IsRat(a) == a.k = "rat"

\* Arithmetic on floats: NaN is absorbing; the other operands are rationals.
Add(a, b) == IF IsRat(a) /\ IsRat(b) THEN Rat(a.n * b.d + b.n * a.d, a.d * b.d) ELSE NaN

Sub(a, b) == IF IsRat(a) /\ IsRat(b) THEN Rat(a.n * b.d - b.n * a.d, a.d * b.d) ELSE NaN

Mul(a, b) == IF IsRat(a) /\ IsRat(b) THEN Rat(a.n * b.n, a.d * b.d) ELSE NaN

Div(a, b) == IF IsRat(a) /\ IsRat(b) /\ b.n # 0 THEN Rat(a.n * b.d, a.d * b.n) ELSE NaN

\* a < b, a <= b on rationals (a comparison with NaN is false)
Lt(a, b) == IsRat(a) /\ IsRat(b) /\ a.n * b.d < b.n * a.d

Le(a, b) == IsRat(a) /\ IsRat(b) /\ a.n * b.d <= b.n * a.d

\* A number is negative: 2^e never is, NaN compares false.
IsNegative(a) == IsRat(a) /\ a.n < 0

Map(f(_), s) == [i \in 1..Len(s) |-> f(s[i])]

\* the integer square root, rounded down
RECURSIVE IntSqrt(_)
IntSqrt(i) ==
    IF i < 1 THEN 0
    ELSE LET r == 2 * IntSqrt(i \div 4)
         IN  IF (r + 1) * (r + 1) <= i THEN r + 1 ELSE r

IsSquare(i) == i >= 0 /\ IntSqrt(i) * IntSqrt(i) = i

RECURSIVE IntLog2(_)
IntLog2(i) == IF i <= 1 THEN 0 ELSE 1 + IntLog2(i \div 2)

RECURSIVE TwoTo(_)
TwoTo(e) == IF e <= 0 THEN 1 ELSE 2 * TwoTo(e - 1)

IsPowerOfTwo(i) == i >= 1 /\ TwoTo(IntLog2(i)) = i

\* The largest |e| for which 2^e is written out as a rational.
MaxExactExp == 12

--------------------------------------------------------------------------
(* numpy's elementwise functions *)

\* np.sign
np_sign(x) == IF IsRat(x) THEN Whole(Sgn(x.n)) ELSE IF x.k = "pow2" THEN Whole(1) ELSE NaN

\* np.sqrt of a non-negative rational whose numerator and denominator are squares
np_sqrt(x) == IF IsRat(x) /\ x.n >= 0 THEN Rat(IntSqrt(x.n), IntSqrt(x.d)) ELSE NaN

\* np.power(x, 2)
np_square(x) ==
    IF IsRat(x) THEN Mul(x, x)
    ELSE IF x.k = "pow2" THEN Pow2(Rat(2 * x.n, x.d))
    ELSE NaN

\* log2(tiny): np.finfo(np.float32).tiny = 2^-126
LogTiny == -126

\* np.clip(x, tiny, inf): every representable rational that is not positive
\* is below tiny, every positive one (|exponent| <= MaxExactExp) is above it.
ClipToTiny(x) == IF IsRat(x) /\ x.n <= 0 THEN Pow2(Whole(LogTiny)) ELSE x

\* np.log, in units of ln 2, of 2^e or of a rational power of two
np_log(x) ==
    IF x.k = "pow2" THEN Rat(x.n, x.d)
    ELSE IF IsRat(x) /\ x.n > 0 THEN Whole(IntLog2(x.n) - IntLog2(x.d))
    ELSE NaN

\* np.exp of y (y in units of ln 2): 2^y, written out when it is a small rational
np_exp(y) ==
    IF ~IsRat(y) THEN NaN
    ELSE IF y.d = 1 /\ Abs(y.n) <= MaxExactExp
         THEN (IF y.n >= 0 THEN Whole(TwoTo(y.n)) ELSE Rat(1, TwoTo(-y.n)))
         ELSE Pow2(y)

\* A test that snaps outputs within tiny of zero only (output <= tiny): what
\* LogScale._inverse would do with the comparison abs(output) <= tiny.
IsTinyWithinTiny(output) == output.k # "nan" /\ Le(np_log(output), Whole(LogTiny))

\* abs(output) - tiny <= tiny.  An output of np.exp is positive or NaN, so the
\* test reads output <= 2 * tiny, that is log2(output) <= log2(tiny) + 1; a
\* comparison with NaN is false.
IsTiny(output) == output.k # "nan" /\ Le(np_log(output), Whole(LogTiny + 1))

\* A clip that leaves its argument alone.
ClipNothing(x) == x

\* np.clip(x, 0, np.inf)
ClipAtZero(x) == IF IsNegative(x) THEN Whole(0) ELSE x

--------------------------------------------------------------------------
(* Units (astropy.units) *)

\* The absence of a unit: a plain ndarray, or a Scale without the _unit attribute.
NoUnit == "none"

Units == {"m", "cm", "s"}

\* Quantity.to_value(unit) is defined between units of the same dimension.
Convertible(from, to) == from = to \/ {from, to} = {"m", "cm"}

\* The factor by which a magnitude in `from` is multiplied to give one in `to`.
UnitFactor(from, to) ==
    IF from = to THEN Whole(1)
    ELSE IF from = "m" /\ to = "cm" THEN Whole(100)
    ELSE Rat(1, 100)

\* An array argument: a plain ndarray (unit = NoUnit) or a Quantity.
Array(value, unit) == [value |-> value, unit |-> unit]

--------------------------------------------------------------------------
(* The interpolation scales *)

ScaleKinds == {"lin", "log", "sqrt"}

\* A Scale instance: its class and its _unit attribute (NoUnit while unset).
NewScale(kind) == [kind |-> kind, unit |-> NoUnit]

\* LinearScale._scale
LinearScale_scale(x) == x

\* LinearScale._inverse
LinearScale_inverse(y) == y

\* LogScale._scale
LogScale_scale(x) == np_log(ClipToTiny(x))

\* LogScale._inverse on one element: np.exp, snapped to 0.0 where is_tiny
LogScale_inverse(y) ==
    LET output == np_exp(y)
    IN  IF IsTiny(output) THEN Whole(0) ELSE output

\* LogScale._inverse warns when np.any(is_tiny)
LogScale_warns(ys) == \E i \in 1..Len(ys) : IsTiny(np_exp(ys[i]))

\* A forward transform that takes no root.
SqrtScale_noroot(x) == x

\* SqrtScale._scale
SqrtScale_scale(x) ==
    LET sign == np_sign(x)
    IN  Mul(sign, np_sqrt(Mul(sign, x)))

\* An inverse that does not square.
SqrtScale_noinverse(y) == y

\* SqrtScale._inverse
SqrtScale_inverse(y) == np_square(y)

\* self._scale(values), elementwise, by class
Scale_scale(kind, x) ==
    CASE kind = "lin"  -> LinearScale_scale(x)
      [] kind = "log"  -> LogScale_scale(x)
      [] kind = "sqrt" -> SqrtScale_scale(x)

\* self._inverse(self, values), elementwise, by class
Scale_inverse(kind, y) ==
    CASE kind = "lin"  -> LinearScale_inverse(y)
      [] kind = "log"  -> LogScale_inverse(y)
      [] kind = "sqrt" -> SqrtScale_inverse(y)

\* The inputs np.sqrt and np.log map to exact numbers.
InDomain(kind, x) ==
    /\ IsRat(x)
    /\ kind = "sqrt" => IsSquare(Abs(x.n)) /\ IsSquare(x.d)
    /\ kind = "log"  => x.n <= 0 \/ (IsPowerOfTwo(x.n) /\ IsPowerOfTwo(x.d))

\* A Scale that never finds its _unit attribute, and so records the unit of
\* every Quantity it is called with.
NeverHasUnit(self) == FALSE

\* line 124: hasattr(self, "_unit")
HasUnit(self) == self.unit # NoUnit

\* A Scale that takes a later Quantity's magnitudes without converting them.
ScaleUnconverted(self, values) ==
    IF values.unit = NoUnit
    THEN [self |-> self, status |-> "AttributeError", value |-> <<>>]
    ELSE [self |-> self, status |-> "ok",
          value |-> [i \in 1..Len(values.value) |-> Scale_scale(self.kind, values.value[i])]]

\* lines 125, 130: values.to_value(self._unit), then self._scale(values)
ConvertAndScale(self, values) ==
    IF values.unit = NoUnit
    THEN [self |-> self, status |-> "AttributeError", value |-> <<>>]
    ELSE IF ~Convertible(values.unit, self.unit)
    THEN [self |-> self, status |-> "UnitConversionError", value |-> <<>>]
    ELSE [self |-> self, status |-> "ok",
          value |-> [i \in 1..Len(values.value) |->
               Scale_scale(self.kind,
                   Mul(values.value[i], UnitFactor(values.unit, self.unit)))]]

\* lines 127-130: a Quantity's unit is recorded in self._unit and its
\* magnitudes are scaled; a plain array is scaled as it is
RecordAndScale(self, values) ==
    [self |-> [self EXCEPT !.unit = values.unit], status |-> "ok",
     value |-> [i \in 1..Len(values.value) |-> Scale_scale(self.kind, values.value[i])]]

\* InterpolationScale.__call__(self, values): the instance afterwards and
\* either the scaled magnitudes or the exception raised.
InterpolationScale_call(self, values) ==
    IF HasUnit(self) THEN ConvertAndScale(self, values) ELSE RecordAndScale(self, values)

\* InterpolationScale.inverse(self, values): a Quantity in self._unit when the
\* attribute is set, a plain array otherwise; warned tells of the Warning.
InterpolationScale_inverse(self, values) ==
    [value  |-> [i \in 1..Len(values) |-> Scale_inverse(self.kind, values[i])],
     unit   |-> self.unit,
     warned |-> self.kind = "log" /\ LogScale_warns(values)]

\* A selection that falls back to LinearScale for a string it does not know.
interpolation_scale_lenient(scale) ==
    IF scale = "log" THEN [status |-> "ok", scale |-> NewScale("log"), name |-> ""]
    ELSE IF scale = "sqrt" THEN [status |-> "ok", scale |-> NewScale("sqrt"), name |-> ""]
    ELSE [status |-> "ok", scale |-> NewScale("lin"), name |-> ""]

\* interpolation_scale(scale): the Scale, or the ValueError naming the string
interpolation_scale(scale) ==
    IF scale \in {"lin", "linear"} THEN [status |-> "ok", scale |-> NewScale("lin"), name |-> ""]
    ELSE IF scale = "log" THEN [status |-> "ok", scale |-> NewScale("log"), name |-> ""]
    ELSE IF scale = "sqrt" THEN [status |-> "ok", scale |-> NewScale("sqrt"), name |-> ""]
    ELSE [status |-> "ValueError", scale |-> NewScale("none"), name |-> scale]

--------------------------------------------------------------------------
(* scipy.interpolate's engines, on a one-dimensional grid *)

\* An option that was not passed, and the value None.
Unset == [k |-> "unset", n |-> 0, d |-> 1]

None == [k |-> "None", n |-> 0, d |-> 1]

\* kwargs.setdefault(key, value)
SetDefault(given, value) == IF given = Unset THEN value ELSE given

\* a bool option as passed or defaulted
True == [k |-> "True", n |-> 0, d |-> 1]

False == [k |-> "False", n |-> 0, d |-> 1]

\* np.searchsorted(grid, x) (side="left"): the number of grid points below x
SearchSorted(grid, x) == Cardinality({i \in 1..Len(grid) : Lt(grid[i], x)})

OutOfBounds(grid, x) == Lt(x, grid[1]) \/ Lt(grid[Len(grid)], x)

\* RegularGridInterpolator(points, values, method="linear", bounds_error=True,
\* fill_value=np.nan)
RegularGridInterpolator(points, values, bounds_error, fill_value) ==
    [kind |-> "RegularGridInterpolator", x |-> points, y |-> values,
     bounds_error |-> SetDefault(bounds_error, True),
     fill_value |-> SetDefault(fill_value, NaN)]

\* interp1d(x, y, axis=axis): kind="linear", bounds_error=None (raise, as
\* fill_value is not "extrapolate"), fill_value=np.nan
interp1d(x, y) ==
    [kind |-> "interp1d", x |-> x, y |-> y,
     bounds_error |-> True, fill_value |-> NaN]

\* RegularGridInterpolator._find_indices: the 0-based cell index of scipy is
\* i - 1 here; i is clamped to the cells 1 .. n-1.
FindIndex(grid, x) ==
    LET i == SearchSorted(grid, x)
    IN  IF i < 1 THEN 1 ELSE IF i > Len(grid) - 1 THEN Len(grid) - 1 ELSE i

NormDistance(grid, x) ==
    LET i == FindIndex(grid, x)
    IN  Div(Sub(x, grid[i]), Sub(grid[i + 1], grid[i]))

\* RegularGridInterpolator._evaluate_linear at one point
EvaluateLinear(e, x) ==
    LET i == FindIndex(e.x, x)
        t == NormDistance(e.x, x)
    IN  Add(Mul(e.y[i], Sub(Whole(1), t)), Mul(e.y[i + 1], t))

\* RegularGridInterpolator._evaluate_nearest at one point
EvaluateNearest(e, x) ==
    LET i == FindIndex(e.x, x)
        t == NormDistance(e.x, x)
    IN  IF Le(t, Rat(1, 2)) THEN e.y[i] ELSE e.y[i + 1]

\* RegularGridInterpolator.__call__(xi, method, **kwargs): the values, or the
\* exception raised.  An option __call__ does not take is a TypeError.
RegularGridInterpolator_call(e, xi, method, kwargs) ==
    IF kwargs # {} THEN [status |-> "TypeError", value |-> <<>>]
    ELSE IF e.bounds_error = True /\ \E j \in 1..Len(xi) : OutOfBounds(e.x, xi[j])
    THEN [status |-> "ValueError: out of bounds", value |-> <<>>]
    ELSE [status |-> "ok",
          value |-> [j \in 1..Len(xi) |->
              IF e.bounds_error = False /\ e.fill_value # None /\ OutOfBounds(e.x, xi[j])
              THEN e.fill_value
              ELSE IF method = "linear" THEN EvaluateLinear(e, xi[j])
                   ELSE EvaluateNearest(e, xi[j])]]

\* interp1d._call_linear at one point
CallLinear(e, x_new) ==
    LET idx == SearchSorted(e.x, x_new) + 1   \* 1-based position
        hi  == IF idx < 2 THEN 2 ELSE IF idx > Len(e.x) THEN Len(e.x) ELSE idx
        lo  == hi - 1
        slope == Div(Sub(e.y[hi], e.y[lo]), Sub(e.x[hi], e.x[lo]))
    IN  Add(Mul(slope, Sub(x_new, e.x[lo])), e.y[lo])

\* interp1d.__call__(x_new): _check_bounds raises when bounds_error, and
\* fills the points out of range otherwise
interp1d_call(e, x_new) ==
    IF e.bounds_error = True /\ \E j \in 1..Len(x_new) : OutOfBounds(e.x, x_new[j])
    THEN [status |-> "ValueError: out of bounds", value |-> <<>>]
    ELSE [status |-> "ok",
          value |-> [j \in 1..Len(x_new) |->
              IF OutOfBounds(e.x, x_new[j]) THEN e.fill_value
              ELSE CallLinear(e, x_new[j])]]

--------------------------------------------------------------------------
(* ScaledRegularGridInterpolator *)

\* No interpolator: before construction, and after a construction that raised.
NoObject ==
    [built |-> FALSE, scale_points |-> <<>>, scale |-> NewScale("none"),
     axis |-> "None", engine |-> interp1d(<<>>, <<>>)]

\* The first element of a sequence of results that raised (0 if none did).
FirstFailure(rs) ==
    IF \A i \in 1..Len(rs) : rs[i].status = "ok" THEN 0
    ELSE CHOOSE i \in 1..Len(rs) :
            rs[i].status # "ok" /\ \A j \in 1..(i - 1) : rs[j].status = "ok"

Min(a, b) == IF a < b THEN a ELSE b

\* A constructor that never lets the N-D engine raise on out-of-bounds points.
BoundsErrorOff(extrapolate, kwargs) == False

\* lines 59-61: if extrapolate: kwargs.setdefault("bounds_error", False)
BoundsErrorOption(extrapolate, kwargs) ==
    IF extrapolate THEN SetDefault(kwargs.bounds_error, False) ELSE kwargs.bounds_error

\* lines 59-61: if extrapolate: kwargs.setdefault("fill_value", None)
FillValueOption(extrapolate, kwargs) ==
    IF extrapolate THEN SetDefault(kwargs.fill_value, None) ELSE kwargs.fill_value

\* A constructor that hands the options to the one-dimensional engine too.
BuildEngineWithOptions(axis, points_scaled, values_scaled, bounds_error, fill_value) ==
    IF axis = "None"
    THEN RegularGridInterpolator(points_scaled[1], values_scaled, bounds_error, fill_value)
    ELSE [interp1d(points_scaled[1], values_scaled) EXCEPT
            !.bounds_error = SetDefault(bounds_error, True),
            !.fill_value = SetDefault(fill_value, NaN)]

\* lines 63-70: self._interpolate, by axis; the options go to the N-D engine only
BuildEngine(axis, points_scaled, values_scaled, bounds_error, fill_value) ==
    IF axis = "None"
    THEN RegularGridInterpolator(points_scaled[1], values_scaled, bounds_error, fill_value)
    ELSE interp1d(points_scaled[1], values_scaled)

\* __init__(self, points, values, points_scale, values_scale, extrapolate,
\* axis, **kwargs): the object, or the exception raised (with the name the
\* ValueError of interpolation_scale carries).
\* points is a tuple of arrays, points_scale a tuple of names or None,
\* kwargs the record of the pass-through options bounds_error and fill_value.
ScaledRegularGridInterpolator_init(points, values, points_scale, values_scale, extrapolate, axis, kwargs) ==
    LET names   == IF points_scale = <<>> THEN [i \in 1..Len(points) |-> "lin"]
                   ELSE points_scale
        made    == [i \in 1..Len(names) |-> interpolation_scale(names[i])]
        bad     == FirstFailure(made)
        vscale  == interpolation_scale(values_scale)
        nzip    == Min(Len(points), Len(names))
        pcalls  == [i \in 1..nzip |-> InterpolationScale_call(made[i].scale, points[i])]
        vcall   == InterpolationScale_call(vscale.scale, values)
        scale_points == [i \in 1..Len(names) |->
                            IF i <= nzip THEN pcalls[i].self ELSE made[i].scale]
        points_scaled == [i \in 1..nzip |-> pcalls[i].value]
        bounds_error == BoundsErrorOption(extrapolate, kwargs)
        fill_value   == FillValueOption(extrapolate, kwargs)
        engine  == BuildEngine(axis, points_scaled, vcall.value, bounds_error, fill_value)
    IN  IF bad # 0
        THEN [status |-> "ValueError", name |-> made[bad].name, self |-> NoObject]
        ELSE IF vscale.status # "ok"
        THEN [status |-> "ValueError", name |-> vscale.name, self |-> NoObject]
        ELSE [status |-> "ok", name |-> "",
              self |-> [built |-> TRUE, scale_points |-> scale_points,
                        scale |-> vcall.self, axis |-> axis, engine |-> engine]]

\* line 86: points = tuple([scale(p) for scale, p in zip(self.scale_points, points)])
\* The calls are made in order; one that raises ends the comprehension, the
\* units recorded by the calls before it stay recorded.
RECURSIVE ScalePoints(_, _, _)
ScalePoints(scales, points, i) ==
    IF i > Min(Len(scales), Len(points))
    THEN [status |-> "ok", scales |-> scales, value |-> <<>>]
    ELSE LET c == InterpolationScale_call(scales[i], points[i])
         IN  IF c.status # "ok"
             THEN [status |-> c.status, scales |-> scales, value |-> <<>>]
             ELSE LET rest == ScalePoints([scales EXCEPT ![i] = c.self], points, i + 1)
                  IN  [status |-> rest.status, scales |-> rest.scales,
                       value |-> IF rest.status = "ok" THEN <<c.value>> \o rest.value
                                 ELSE <<>>]

\* lines 88-95: the engine's values for the scaled points
Interpolate(self, points, method, kwargs) ==
    IF self.axis = "None"
    THEN RegularGridInterpolator_call(self.engine, points[1], method, kwargs)
    ELSE interp1d_call(self.engine, points[1])

\* lines 97-98: np.clip(values, 0, np.inf)
Clip(clip, values) ==
    IF clip THEN [i \in 1..Len(values) |-> ClipAtZero(values[i])] ELSE values

\* A call that raised.
Raised(self, status) ==
    [self |-> self, status |-> status, raw |-> <<>>, value |-> <<>>,
     unit |-> NoUnit, warned |-> FALSE]

\* __call__(self, points, method="linear", clip=True, **kwargs): the object
\* afterwards and the result or the exception; raw is the local `values`
\* before the clip.
ScaledRegularGridInterpolator_call(self, points, method, clip, kwargs) ==
    LET scaled == ScalePoints(self.scale_points, points, 1)
        after  == [self EXCEPT !.scale_points = scaled.scales]
    IN  IF scaled.status # "ok" THEN Raised(after, scaled.status)
        ELSE LET values == Interpolate(after, scaled.value, method, kwargs)
             IN  IF values.status # "ok" THEN Raised(after, values.status)
                 ELSE LET back == InterpolationScale_inverse(after.scale, values.value)
                      IN  [self |-> after, status |-> "ok", raw |-> back.value,
                           value |-> Clip(clip, back.value), unit |-> back.unit,
                           warned |-> back.warned]

--------------------------------------------------------------------------
(* The interpolator's life: one construction, then queries *)

Wholes(s) == [i \in 1..Len(s) |-> Whole(s[i])]

\* values: positive, and signed (its linear extrapolation below the grid is
\* negative).
ValueArrays == {<<1, 4, 16>>, <<-4, 0, 4>>}

\* points_scale: None (written <<>>) or a tuple of names
PointsScales == {<<>>, <<"lin">>, <<"log">>, <<"sqrt">>, <<"linear", "log">>,
                 <<"cubic">>, <<"lin", "ln">>}

ValuesScales == {"lin", "linear", "log", "sqrt", "cubic"}

Options(b, f) == [bounds_error |-> b, fill_value |-> f]

\* **kwargs of the construction
Kwargs ==
    {Options(Unset, Unset), Options(True, Unset), Options(False, Unset),
     Options(Unset, Whole(4)), Options(False, None)}

QueryCoordinates == {-1, 0, 1, 4, 16, 256}

\* the coordinate arrays of the queries: every single coordinate, and some pairs
QueryArrays ==
    {<<q>> : q \in QueryCoordinates} \cup {<<16, -1>>, <<4, 256>>}

\* the calls explored: every array with each clip, both methods inside and on
\* either side of the grid, and calls that pass an option on
Queries ==
    [points : QueryArrays, method : {"linear"}, clip : BOOLEAN, kwargs : {{}}]
    \cup [points : {<<-1>>, <<4>>, <<256>>}, method : {"nearest"}, clip : {TRUE},
          kwargs : {{}}]
    \cup [points : {<<4>>, <<256>>}, method : {"linear"}, clip : {TRUE},
          kwargs : {{"fill_value"}}]

NoArgs ==
    [points |-> <<>>, values |-> Array(<<>>, NoUnit), points_scale |-> <<>>,
     values_scale |-> "", extrapolate |-> FALSE, axis |-> "None",
     kwargs |-> [bounds_error |-> Unset, fill_value |-> Unset]]

NoScan == [value_scan |-> <<>>, dloglike_scan |-> <<>>, interp_scale |-> ""]

NoOutcome ==
    [op |-> "none", status |-> "", name |-> "", points |-> <<>>, method |-> "",
     clip |-> FALSE, kwargs |-> {}, raw |-> <<>>, value |-> <<>>,
     unit |-> NoUnit, warned |-> FALSE]

\* The grid and the values are numbers np.sqrt and np.log map exactly, and the
\* scaled grid is strictly ascending (a grid the engines accept).
Representable(kind, array, unit) ==
    \A i \in 1..Len(array.value) :
        InDomain(kind, Mul(array.value[i],
                           IF unit = NoUnit \/ array.unit = NoUnit THEN Whole(1)
                           ELSE UnitFactor(array.unit, unit)))

KindOf(name) == IF name = "linear" THEN "lin" ELSE name

\* The kind of the scale zip() pairs with points[0].
FirstKind(points_scale) == IF points_scale = <<>> THEN "lin" ELSE KindOf(points_scale[1])

StrictlyAscending(s) == \A i \in 1..(Len(s) - 1) : Lt(s[i], s[i + 1])

Acceptable(a) ==
    LET r == ScaledRegularGridInterpolator_init(a.points, a.values, a.points_scale,
                 a.values_scale, a.extrapolate, a.axis, a.kwargs)
    IN  r.status = "ok" =>
            /\ Representable(FirstKind(a.points_scale), a.points[1], NoUnit)
            /\ Representable(KindOf(a.values_scale), a.values, NoUnit)
            /\ StrictlyAscending(r.self.engine.x)

\* interp = ScaledRegularGridInterpolator(points, values, ...)
Construct(a) ==
    /\ ~interp.built /\ outcome.op = "none"
    /\ Acceptable(a)
    /\ LET r == ScaledRegularGridInterpolator_init(a.points, a.values, a.points_scale,
                    a.values_scale, a.extrapolate, a.axis, a.kwargs)
       IN  /\ interp' = r.self
           /\ args' = a
           /\ outcome' = [NoOutcome EXCEPT !.op = "init", !.status = r.status,
                                           !.name = r.name]
    /\ UNCHANGED <<sc, scan, threads>>

\* interp(points, method, clip, **kwargs)
Query(points, method, clip, kwargs) ==
    /\ interp.built
    /\ \A i \in 1..Len(points) :
          Representable(interp.scale_points[i].kind, points[i], interp.scale_points[i].unit)
    /\ LET r == ScaledRegularGridInterpolator_call(interp, points, method, clip, kwargs)
       IN  /\ interp' = r.self
           /\ outcome' = [op |-> "call", status |-> r.status, name |-> "",
                          points |-> points, method |-> method, clip |-> clip,
                          kwargs |-> kwargs, raw |-> r.raw, value |-> r.value,
                          unit |-> r.unit, warned |-> r.warned]
    /\ UNCHANGED <<args, sc, scan, threads>>

\* the pairs (points_scale, values_scale) of the constructions explored
ScalePairs ==
    {<<ps, "lin">> : ps \in {<<>>, <<"log">>, <<"sqrt">>}}
    \cup {<<<<>>, vs>> : vs \in {"log", "sqrt"}}
    \cup {<<<<"log">>, "log">>}

ArgsOf(grid, values, scales, extrapolate, axis, kwargs) ==
    [points |-> <<Array(Wholes(grid), NoUnit)>>, values |-> Array(Wholes(values), NoUnit),
     points_scale |-> scales[1], values_scale |-> scales[2],
     extrapolate |-> extrapolate, axis |-> axis, kwargs |-> kwargs]

\* the constructions explored: every value array, pair of scale classes, flag
\* and option set on a grid with a node at 0; a grid without one; and every
\* scale name (valid or not)
ConstructArgs ==
    {ArgsOf(<<0, 1, 16>>, v, s, e, "None", k) :
        v \in ValueArrays, s \in ScalePairs, e \in BOOLEAN, k \in Kwargs}
    \cup
    {ArgsOf(<<0, 1, 16>>, v, s, e, "0", k) :
        v \in ValueArrays, s \in ScalePairs, e \in BOOLEAN,
        k \in {Options(Unset, Unset), Options(False, None)}}
    \cup
    {ArgsOf(<<1, 16, 64>>, <<1, 4, 16>>, <<<<"log">>, "lin">>, e, a, Options(Unset, Unset)) :
        e \in BOOLEAN, a \in {"None", "0"}}
    \cup
    {ArgsOf(<<1, 16, 64>>, <<1, 4, 16>>, <<ps, vs>>, TRUE, "None", Options(Unset, Unset)) :
        ps \in PointsScales, vs \in ValuesScales}

Init ==
    /\ interp = NoObject
    /\ args = NoArgs
    /\ outcome = NoOutcome
    /\ sc = NewScale("none")
    /\ scan = NoScan
    /\ threads = <<>>

Next ==
    \/ \E a \in ConstructArgs : Construct(a)
    \/ \E q \in Queries :
            Query(<<Array(Wholes(q.points), NoUnit)>>, q.method, q.clip, q.kwargs)

Spec == Init /\ [][Next]_vars

--------------------------------------------------------------------------
(* Properties of the interpolator (checked under Spec) *)

IsCall == outcome.op = "call"

Returned == IsCall /\ outcome.status = "ok"

\* the coordinates queried, the grid and the values given at construction
Queried == outcome.points[1].value

GridNodes == args.points[1].value

StoredValues == args.values.value

AtNodes == \A j \in 1..Len(Queried) : \E i \in 1..Len(GridNodes) : Queried[j] = GridNodes[i]

\* a coordinate outside the grid given at construction
OutsideGrid(x) == Lt(x, GridNodes[1]) \/ Lt(GridNodes[Len(GridNodes)], x)

\* a coordinate whose image under the points scale is outside the scaled grid
OutsideScaledGrid(x) ==
    OutOfBounds(interp.engine.x, Scale_scale(interp.scale_points[1].kind, x))

NoOptionsGiven == args.kwargs = Options(Unset, Unset)

NegativeNodeResult(v) ==
    CASE interp.scale.kind = "lin"  -> IF outcome.clip THEN Whole(0) ELSE v
      [] interp.scale.kind = "log"  -> Whole(0)
      [] interp.scale.kind = "sqrt" -> Sub(Whole(0), v)

C3_ClipFloorsAtZeroOrPassesThrough ==
    Returned =>
        /\ outcome.clip => \A j \in 1..Len(outcome.value) : ~IsNegative(outcome.value[j])
        /\ ~outcome.clip => outcome.value = outcome.raw
        /\ outcome.raw =
              InterpolationScale_inverse(interp.scale,
                  Interpolate(interp, <<[j \in 1..Len(Queried) |->
                      Scale_scale(interp.scale_points[1].kind, Queried[j])]>>,
                      outcome.method, outcome.kwargs).value).value

\* one clip=True call floored a negative element to 0 (beside a positive one it
\* left alone), and a clip=False call returned a negative element
C3_WitnessClipped ==
    /\ Returned /\ outcome.clip
    /\ \E j \in 1..Len(outcome.raw) :
          IsNegative(outcome.raw[j]) /\ outcome.value[j] = Whole(0)
    /\ \E j \in 1..Len(outcome.raw) :
          Lt(Whole(0), outcome.raw[j]) /\ outcome.value[j] = outcome.raw[j]

C3_WitnessPassed ==
    /\ Returned /\ ~outcome.clip
    /\ \E j \in 1..Len(outcome.value) : IsNegative(outcome.value[j])

OutOfBoundsError == "ValueError: out of bounds"

\* the call reached the N-D engine with arguments it takes
NDCall == IsCall /\ args.axis = "None" /\ outcome.kwargs = {}

\* an explicit pass-through option is the engine's setting
ExplicitOptionsKept ==
    /\ args.kwargs.bounds_error # Unset => interp.engine.bounds_error = args.kwargs.bounds_error
    /\ args.kwargs.fill_value # Unset => interp.engine.fill_value = args.kwargs.fill_value

\* C4 as claimed, in N-D mode: with extrapolate and no bounds option a query
\* outside the grid returns an extrapolated result; an explicit option takes
\* precedence over the default; and when the engine's bounds check is on
\* (extrapolation not enabled), every query with a coordinate outside the
\* original grid fails with the out-of-bounds error.
C4_OutsideOriginalGridFails ==
    (NDCall /\ \E j \in 1..Len(Queried) : OutsideGrid(Queried[j])) =>
        /\ (args.extrapolate /\ NoOptionsGiven) =>
              /\ outcome.status = "ok"
              /\ \A j \in 1..Len(Queried) : outcome.value[j] # NaN
        /\ ExplicitOptionsKept
        /\ interp.engine.bounds_error = True => outcome.status = OutOfBoundsError

\* C4 amended: as claimed, but the bounds check is made on the scaled
\* coordinates against the scaled grid: the query fails exactly when a scaled
\* coordinate is outside the scaled grid.  A coordinate outside the original
\* grid is inside the scaled one only under a log points scale, which floors
\* the coordinate and the first node (both <= 0 here) at tiny.
C4_OutsideScaledGridFails ==
    NDCall =>
        /\ (args.extrapolate /\ NoOptionsGiven) =>
              /\ outcome.status = "ok"
              /\ \A j \in 1..Len(Queried) : outcome.value[j] # NaN
        /\ ExplicitOptionsKept
        /\ interp.engine.bounds_error = True =>
              (outcome.status = OutOfBoundsError
                 <=> \E j \in 1..Len(Queried) : OutsideScaledGrid(Queried[j]))
        /\ \A j \in 1..Len(Queried) :
              /\ OutsideScaledGrid(Queried[j]) => OutsideGrid(Queried[j])
              /\ (OutsideGrid(Queried[j]) /\ ~OutsideScaledGrid(Queried[j])) =>
                    /\ interp.scale_points[1].kind = "log"
                    /\ Le(Queried[j], Whole(0)) /\ Le(GridNodes[1], Whole(0))

\* without extrapolation and without options, a query above a log-scaled grid
\* was refused by the engine
C4_Witness ==
    /\ NDCall /\ ~args.extrapolate /\ NoOptionsGiven
    /\ interp.scale_points[1].kind = "log"
    /\ \E j \in 1..Len(Queried) : OutsideScaledGrid(Queried[j])
    /\ outcome.status = OutOfBoundsError

ValidNames == {"lin", "linear", "log", "sqrt"}

\* every name given: the entries of points_scale and values_scale
GivenNames ==
    {args.points_scale[i] : i \in 1..Len(args.points_scale)} \cup {args.values_scale}

\* C6: a construction succeeds exactly when every name given (values_scale and
\* every entry of points_scale) is lin, linear, log or sqrt; otherwise it
\* raises a ValueError naming an offending string and no interpolator exists.
C6_OnlyValidScaleNamesConstruct ==
    /\ interp.built =>
          /\ GivenNames \subseteq ValidNames
          /\ interp.scale.kind = KindOf(args.values_scale)
          /\ \A i \in 1..Len(args.points_scale) :
                interp.scale_points[i].kind = KindOf(args.points_scale[i])
    /\ outcome.op = "init" =>
          IF GivenNames \subseteq ValidNames
          THEN outcome.status = "ok" /\ interp.built
          ELSE /\ outcome.status = "ValueError"
               /\ outcome.name \in GivenNames \ ValidNames
               /\ ~interp.built

\* a construction whose second points_scale entry is "ln" raised naming it
C6_Witness ==
    /\ outcome.op = "init" /\ outcome.status = "ValueError"
    /\ args.points_scale = <<"lin", "ln">> /\ args.values_scale \in ValidNames
    /\ outcome.name = "ln" /\ ~interp.built

AxisCall == IsCall /\ args.axis # "None"

\* in axis mode the object does not depend on extrapolate or the construction
\* options, and the outcome of a call not on method or the call's options
AxisModeIgnoresOptions ==
    /\ (interp.built /\ args.axis # "None") =>
          \A e \in BOOLEAN, k \in Kwargs :
            ScaledRegularGridInterpolator_init(args.points, args.values,
                args.points_scale, args.values_scale, e, args.axis, k).self = interp
    /\ AxisCall =>
          \A m \in {"linear", "nearest"}, kw \in {{}, {"fill_value"}} :
            LET r == ScaledRegularGridInterpolator_call(interp, outcome.points, m,
                                                        outcome.clip, kw)
            IN  /\ r.status = outcome.status
                /\ r.value = outcome.value

\* C10 as claimed: in axis mode extrapolate, the options and method are
\* ignored, and a coordinate outside the range of points[0] fails with the
\* out-of-bounds error, extrapolate or not.
C10_AxisOutsideOriginalRangeFails ==
    /\ AxisModeIgnoresOptions
    /\ (AxisCall /\ \E j \in 1..Len(Queried) : OutsideGrid(Queried[j])) =>
          outcome.status = OutOfBoundsError

\* C10 amended: as claimed, but the range is checked on the scaled coordinates:
\* the call fails with the out-of-bounds error exactly when a scaled
\* coordinate is outside the range of the scaled points[0] (a log points scale
\* floors coordinates <= tiny at tiny, which may be the first scaled node).
C10_AxisOutsideScaledRangeFails ==
    /\ AxisModeIgnoresOptions
    /\ AxisCall =>
          (outcome.status = OutOfBoundsError
             <=> \E j \in 1..Len(Queried) : OutsideScaledGrid(Queried[j]))
    /\ AxisCall =>
          \A j \in 1..Len(Queried) :
              /\ OutsideScaledGrid(Queried[j]) => OutsideGrid(Queried[j])
              /\ (OutsideGrid(Queried[j]) /\ ~OutsideScaledGrid(Queried[j])) =>
                    /\ interp.scale_points[1].kind = "log"
                    /\ Le(Queried[j], Whole(0)) /\ Le(GridNodes[1], Whole(0))

\* an axis-mode interpolator built with extrapolate and bounds_error=False,
\* fill_value=None refused a coordinate above its grid, the call's option ignored
C10_Witness ==
    /\ AxisCall /\ args.extrapolate /\ args.kwargs = Options(False, None)
    /\ outcome.kwargs = {"fill_value"}
    /\ Queried = <<Whole(256)>>
    /\ outcome.status = OutOfBoundsError

--------------------------------------------------------------------------
(* A Scale instance on its own: forward and inverse calls in any order *)

NoArray == Array(<<>>, NoUnit)

NoScaleOutcome ==
    [op |-> "none", arg |-> NoArray, status |-> "", value |-> <<>>,
     unit |-> NoUnit, warned |-> FALSE, fwd |-> NoArray]

\* scale(values)
ScaleForward(values) ==
    /\ Representable(sc.kind, values, sc.unit)
    /\ LET r == InterpolationScale_call(sc, values)
       IN  /\ sc' = r.self
           /\ outcome' = [NoScaleOutcome EXCEPT !.op = "forward", !.arg = values,
                                                !.status = r.status, !.value = r.value]
    /\ UNCHANGED <<interp, args, scan, threads>>

\* scale.inverse(values), on values given by the caller
ScaleInverse(values) ==
    /\ sc.kind = "log" => \A i \in 1..Len(values) : values[i].d \in {1, 2}
    /\ LET r == InterpolationScale_inverse(sc, values)
       IN  outcome' = [NoScaleOutcome EXCEPT !.op = "inverse",
                          !.arg = Array(values, NoUnit), !.status = "ok",
                          !.value = r.value, !.unit = r.unit, !.warned = r.warned]
    /\ UNCHANGED <<interp, args, sc, scan, threads>>

\* scale.inverse(scale(x)): the inverse of what the last forward call returned
ScaleRoundTrip ==
    /\ outcome.op = "forward" /\ outcome.status = "ok"
    /\ LET r == InterpolationScale_inverse(sc, outcome.value)
       IN  outcome' = [NoScaleOutcome EXCEPT !.op = "inverse",
                          !.arg = Array(outcome.value, NoUnit), !.status = "ok",
                          !.value = r.value, !.unit = r.unit, !.warned = r.warned,
                          !.fwd = outcome.arg]
    /\ UNCHANGED <<interp, args, sc, scan, threads>>

\* the arrays given to the forward transform, plain and in three units
ForwardValues ==
    {<<-4>>, <<-1>>, <<0>>, <<1>>, <<4>>, <<100>>, <<400>>, <<-4, 4>>, <<16, 0, -1>>}

ForwardArrays == {Array(Wholes(v), u) : v \in ForwardValues, u \in Units \cup {NoUnit}}

\* the arrays given to the inverse transform: for the log scale these are
\* exponents, around log2(tiny) = -126 and elsewhere
InverseArrays ==
    {<<Whole(-127)>>, <<Whole(-126)>>, <<Whole(-125)>>, <<Whole(-124)>>,
     <<Rat(-251, 2)>>, <<Rat(-249, 2)>>, <<Whole(0)>>,
     <<Whole(3), Whole(-126)>>, <<Whole(-2), Rat(3, 2)>>, <<Whole(-125), Whole(4)>>,
     <<NaN, Whole(1)>>}

InitScale ==
    /\ interp = NoObject
    /\ args = NoArgs
    /\ outcome = NoScaleOutcome
    /\ sc \in {interpolation_scale(name).scale : name \in ValidNames}
    /\ scan = NoScan
    /\ threads = <<>>

NextScale ==
    \/ \E values \in ForwardArrays : ScaleForward(values)
    \/ \E values \in InverseArrays : ScaleInverse(values)
    \/ ScaleRoundTrip

SpecScale == InitScale /\ [][NextScale]_vars

--------------------------------------------------------------------------
(* Properties of the scales (checked under SpecScale) *)

\* the magnitudes of a forward argument in the unit the scale has recorded
MagnitudesOf(array) ==
    [i \in 1..Len(array.value) |->
        IF array.unit = NoUnit \/ sc.unit = NoUnit THEN array.value[i]
        ELSE Mul(array.value[i], UnitFactor(array.unit, sc.unit))]

SqrtRoundTrip == outcome.op = "inverse" /\ outcome.fwd # NoArray /\ sc.kind = "sqrt"

\* C2 as claimed: the sqrt scale's backward(forward(x)) is x, for negative x too.
C2_SqrtRoundTripPreservesSign ==
    SqrtRoundTrip => outcome.value = MagnitudesOf(outcome.fwd)

\* C2 amended: the sqrt scale's backward(forward(x)) is |x|: x itself for
\* x >= 0 and -x for negative x (the inverse squares, which loses the sign).
C2_SqrtRoundTripGivesMagnitude ==
    SqrtRoundTrip =>
        /\ Len(outcome.value) = Len(outcome.fwd.value)
        /\ \A i \in 1..Len(outcome.value) :
              LET x == MagnitudesOf(outcome.fwd)[i]
              IN  outcome.value[i] = IF IsNegative(x) THEN Sub(Whole(0), x) ELSE x

\* the round trip of <<-4, 4>> came back as <<4, 4>>
C2_Witness ==
    /\ SqrtRoundTrip
    /\ outcome.fwd.value = <<Whole(-4), Whole(4)>>
    /\ outcome.arg.value = <<Whole(-2), Whole(2)>>
    /\ outcome.value = <<Whole(4), Whole(4)>>

\* C5: over any sequence of forward and inverse calls on one Scale: a recorded
\* unit never changes; with none recorded, a forward call records its
\* argument's unit (a plain array records none) and an inverse call records
\* none; a unit-bearing forward call on a Scale with a recorded unit transforms
\* the magnitudes converted to that unit (and raises, changing nothing, when
\* the units are not convertible); every inverse call returns a quantity in the
\* recorded unit, or a plain array when none is recorded.
C5_UnitRecordedOnceAndReattached ==
    [][
        /\ sc'.kind = sc.kind
        /\ sc.unit # NoUnit => sc'.unit = sc.unit
        /\ (sc.unit = NoUnit /\ outcome'.op = "forward") =>
              /\ sc'.unit = outcome'.arg.unit
              /\ outcome'.status = "ok"
              /\ outcome'.value = [i \in 1..Len(outcome'.arg.value) |->
                                      Scale_scale(sc.kind, outcome'.arg.value[i])]
        /\ (sc.unit = NoUnit /\ outcome'.op = "inverse") => sc'.unit = NoUnit
        /\ (sc.unit # NoUnit /\ outcome'.op = "forward" /\ outcome'.arg.unit # NoUnit) =>
              IF Convertible(outcome'.arg.unit, sc.unit)
              THEN /\ outcome'.status = "ok"
                   /\ outcome'.value =
                        [i \in 1..Len(outcome'.arg.value) |->
                            Scale_scale(sc.kind,
                                Mul(outcome'.arg.value[i],
                                    UnitFactor(outcome'.arg.unit, sc.unit)))]
              ELSE outcome'.status = "UnitConversionError"
        /\ outcome'.op = "inverse" => outcome'.unit = sc.unit
    ]_vars

\* a Scale that recorded m was later given centimetres and transformed metres
C5_Witness ==
    /\ sc.unit = "m" /\ sc.kind = "sqrt"
    /\ outcome.op = "forward" /\ outcome.status = "ok"
    /\ outcome.arg = Array(<<Whole(400)>>, "cm")
    /\ outcome.value = <<Whole(2)>>

LogInverse == outcome.op = "inverse" /\ sc.kind = "log"

\* the exponent y of an element: exp(y) = 2^y in the model's units
WithinTinyOfZero(y) == Le(y, Whole(LogTiny))

WithinTwoTinyOfZero(y) == Le(y, Whole(LogTiny + 1))

--------------------------------------------------------------------------
(* interpolate_likelihood_profile *)

\* np.gradient(f): unit spacing, second-order central differences inside and
\* first-order one-sided differences at the two ends
np_gradient(f) ==
    [i \in 1..Len(f) |->
        IF i = 1 THEN Sub(f[2], f[1])
        ELSE IF i = Len(f) THEN Sub(f[Len(f)], f[Len(f) - 1])
        ELSE Div(Sub(f[i + 1], f[i - 1]), Whole(2))]

\* A helper that hands the scan values to the constructor unsigned.
ProfileArgsUnsigned(value_scan, dloglike_scan, interp_scale) ==
    [points |-> <<Array(value_scan, NoUnit)>>,
     values |-> Array(dloglike_scan, NoUnit),
     points_scale |-> <<>>, values_scale |-> interp_scale,
     extrapolate |-> TRUE, axis |-> "None", kwargs |-> Options(Unset, Unset)]

\* the arguments interpolate_likelihood_profile gives the constructor
\* (lines 210-213): points_scale, extrapolate, axis and kwargs are defaults
ProfileArgs(value_scan, dloglike_scan, interp_scale) ==
    LET gradient == np_gradient(dloglike_scan)
        sign     == [i \in 1..Len(gradient) |-> np_sign(gradient[i])]
    IN  [points |-> <<Array(value_scan, NoUnit)>>,
         values |-> Array([i \in 1..Len(dloglike_scan) |-> Mul(sign[i], dloglike_scan[i])],
                          NoUnit),
         points_scale |-> <<>>, values_scale |-> interp_scale,
         extrapolate |-> TRUE, axis |-> "None", kwargs |-> Options(Unset, Unset)]

\* interpolate_likelihood_profile(value_scan, dloglike_scan, interp_scale)
interpolate_likelihood_profile(value_scan, dloglike_scan, interp_scale) ==
    LET a == ProfileArgs(value_scan, dloglike_scan, interp_scale)
    IN  ScaledRegularGridInterpolator_init(a.points, a.values, a.points_scale,
            a.values_scale, a.extrapolate, a.axis, a.kwargs)

\* interp = interpolate_likelihood_profile(...)
BuildProfile ==
    /\ ~interp.built /\ outcome.op = "none"
    /\ LET r == interpolate_likelihood_profile(scan.value_scan, scan.dloglike_scan,
                                               scan.interp_scale)
       IN  /\ interp' = r.self
           /\ args' = ProfileArgs(scan.value_scan, scan.dloglike_scan, scan.interp_scale)
           /\ outcome' = [NoOutcome EXCEPT !.op = "init", !.status = r.status,
                                           !.name = r.name]
    /\ UNCHANGED <<sc, scan, threads>>

\* the longest scan of the scans enumerated in full
MaxScanLen == 3

\* delta log-likelihood values (squares, which np.sqrt maps exactly)
ScanValues == {0, 1, 4, 9}

SeqsOf(S, n) == [1..n -> S]

\* the scans explored: every scan of 2 .. MaxScanLen values over 1, 2, ..., and
\* parabolas and monotonic profiles over 1 .. 5
Scans ==
    {[value_scan |-> [i \in 1..Len(d) |-> Whole(i)], dloglike_scan |-> Wholes(d),
      interp_scale |-> s] :
        d \in UNION {SeqsOf(ScanValues, m) : m \in 2..MaxScanLen},
        s \in {"sqrt", "lin"}}
    \cup
    {[value_scan |-> Wholes(<<1, 2, 3, 4, 5>>), dloglike_scan |-> Wholes(d),
      interp_scale |-> s] :
        d \in {<<4, 1, 0, 1, 4>>, <<9, 4, 1, 0, 1>>, <<0, 1, 4, 9, 16>>, <<1, 0, 1, 0, 1>>},
        s \in {"sqrt", "lin"}}

\* the coordinates the profile is evaluated at
ProfileQueries == {<<Whole(q)>> : q \in 0..6} \cup {<<Rat(5, 2), Whole(3)>>}

InitProfile ==
    /\ interp = NoObject
    /\ args = NoArgs
    /\ outcome = NoOutcome
    /\ sc = NewScale("none")
    /\ scan \in Scans
    /\ threads = <<>>

NextProfile ==
    \/ BuildProfile
    \/ \E q \in ProfileQueries, clip \in BOOLEAN :
            Query(<<Array(q, NoUnit)>>, "linear", clip, {})

SpecProfile == InitProfile /\ [][NextProfile]_vars

--------------------------------------------------------------------------
(* Properties of interpolate_likelihood_profile (checked under SpecProfile) *)

\* the finite-difference gradient at position i of the scan d
FiniteDifference(d, i) ==
    IF i = 1 THEN Sub(d[2], d[1])
    ELSE IF i = Len(d) THEN Sub(d[i], d[i - 1])
    ELSE Div(Sub(d[i + 1], d[i - 1]), Whole(2))

SignOf(x) == IF IsNegative(x) THEN Whole(-1) ELSE IF x = Whole(0) THEN Whole(0) ELSE Whole(1)

Parabola ==
    /\ scan.value_scan = Wholes(<<1, 2, 3, 4, 5>>)
    /\ scan.dloglike_scan = Wholes(<<4, 1, 0, 1, 4>>)

\* C8: interpolate_likelihood_profile builds a single-axis interpolator on
\* points (value_scan,) with a linear point scale, values_scale = interp_scale
\* and values v[i] = sign(g[i]) * dloglike_scan[i], g the finite-difference
\* gradient of dloglike_scan (same length, same order); for value_scan =
\* [1,2,3,4,5] and dloglike_scan = [4,1,0,1,4] it returns 0 at 3.
C8_ProfileInterpolator ==
    /\ interp.built =>
          /\ args.points = <<Array(scan.value_scan, NoUnit)>>
          /\ Len(interp.scale_points) = 1 /\ interp.scale_points[1].kind = "lin"
          /\ interp.axis = "None"
          /\ interp.scale.kind = KindOf(scan.interp_scale)
          /\ Len(args.values.value) = Len(scan.dloglike_scan)
          /\ \A i \in 1..Len(scan.dloglike_scan) :
                args.values.value[i] =
                    Mul(SignOf(FiniteDifference(scan.dloglike_scan, i)),
                        scan.dloglike_scan[i])
          /\ interp.engine.x = scan.value_scan
          /\ interp.engine.y = [i \in 1..Len(args.values.value) |->
                                  Scale_scale(interp.scale.kind, args.values.value[i])]
    /\ (Returned /\ Parabola) =>
          \A j \in 1..Len(Queried) : Queried[j] = Whole(3) => outcome.value[j] = Whole(0)

\* the parabola's sqrt-scaled interpolator, built on the signed values
\* -4, -1, 0, 1, 4, returned 0 at 3
C8_Witness ==
    /\ Parabola /\ scan.interp_scale = "sqrt"
    /\ args.values.value = Wholes(<<-4, -1, 0, 1, 4>>)
    /\ interp.engine.y = Wholes(<<-2, -1, 0, 1, 2>>)
    /\ Returned /\ Queried = <<Whole(3)>> /\ outcome.value = <<Whole(0)>>

--------------------------------------------------------------------------
(* Concurrent queries on one interpolator.  A query is the steps of __call__:
   line 86 (the Scale's __call__: the hasattr test of line 124, then line 125
   or lines 127-129), the engine call, the inverse and the clip; the steps of
   different queries interleave freely. *)

\* the number of queries that may be in flight at once
NumThreads == 2

ThreadIds == 1..NumThreads

Idle ==
    [pc |-> "idle", points |-> NoArray, clip |-> FALSE, clean |-> FALSE,
     at |-> NoObject, wrote |-> FALSE, local |-> <<>>, status |-> "",
     value |-> <<>>, unit |-> NoUnit]

InFlight(t) == threads[t].pc # "idle"

Finished(t) == threads[t].pc \in {"returned", "raised"}

\* every Scale of the interpolator has its _unit
Established ==
    /\ interp.scale.unit # NoUnit
    /\ \A i \in 1..Len(interp.scale_points) : interp.scale_points[i].unit # NoUnit

\* the query starts: interp(points, clip=clip).  It is clean when the units
\* were established by calls that completed before it started: every Scale has
\* its unit and no query in flight started before that was so.  A clean query
\* remembers the interpolator as it found it.
Start(t, points, clip) ==
    /\ interp.built /\ threads[t].pc = "idle"
    /\ Representable(interp.scale_points[1].kind, points, interp.scale_points[1].unit)
    /\ LET clean == Established /\ \A u \in ThreadIds : InFlight(u) => threads[u].clean
       IN  threads' = [threads EXCEPT ![t] =
             [Idle EXCEPT !.pc = "line124", !.points = points, !.clip = clip,
                          !.clean = clean,
                          !.at = IF clean THEN interp ELSE NoObject]]
    /\ UNCHANGED <<interp, args, outcome, sc, scan>>

\* line 124: if hasattr(self, "_unit")
TestUnit(t) ==
    /\ threads[t].pc = "line124"
    /\ threads' = [threads EXCEPT ![t].pc =
          IF HasUnit(interp.scale_points[1]) THEN "line125" ELSE "line127"]
    /\ UNCHANGED <<interp, args, outcome, sc, scan>>

\* line 125 (to_value(self._unit)) and line 130
Convert(t) ==
    /\ threads[t].pc = "line125"
    /\ LET r == ConvertAndScale(interp.scale_points[1], threads[t].points)
       IN  threads' = [threads EXCEPT ![t].pc = IF r.status = "ok" THEN "line88" ELSE "raised",
                                      ![t].status = r.status, ![t].local = r.value]
    /\ UNCHANGED <<interp, args, outcome, sc, scan>>

\* lines 127-130: the write of self._unit
Record(t) ==
    /\ threads[t].pc = "line127"
    /\ LET r == RecordAndScale(interp.scale_points[1], threads[t].points)
       IN  /\ interp' = [interp EXCEPT !.scale_points[1] = r.self]
           /\ threads' = [threads EXCEPT ![t].pc = "line88", ![t].local = r.value,
                              ![t].wrote = threads[t].points.unit # NoUnit]
    /\ UNCHANGED <<args, outcome, sc, scan>>

\* lines 88-94: the engine call
CallEngine(t) ==
    /\ threads[t].pc = "line88"
    /\ LET r == Interpolate(interp, <<threads[t].local>>, "linear", {})
       IN  threads' = [threads EXCEPT ![t].pc = IF r.status = "ok" THEN "line92" ELSE "raised",
                                      ![t].status = r.status, ![t].local = r.value]
    /\ UNCHANGED <<interp, args, outcome, sc, scan>>

\* lines 92 / 95: self.scale.inverse(values)
Invert(t) ==
    /\ threads[t].pc = "line92"
    /\ LET r == InterpolationScale_inverse(interp.scale, threads[t].local)
       IN  threads' = [threads EXCEPT ![t].pc = "line97", ![t].local = r.value,
                                      ![t].unit = r.unit]
    /\ UNCHANGED <<interp, args, outcome, sc, scan>>

\* lines 97-99: the clip and the return
ClipAndReturn(t) ==
    /\ threads[t].pc = "line97"
    /\ threads' = [threads EXCEPT ![t].pc = "returned", ![t].status = "ok",
                                  ![t].value = Clip(threads[t].clip, threads[t].local),
                                  ![t].local = <<>>]
    /\ UNCHANGED <<interp, args, outcome, sc, scan>>

\* the caller has its result (or its exception); the thread may query again
Complete(t) ==
    /\ Finished(t)
    /\ threads' = [threads EXCEPT ![t] = Idle]
    /\ UNCHANGED <<interp, args, outcome, sc, scan>>

\* the interpolators queried concurrently: built from quantities (every unit
\* recorded by the constructor), or from plain points (the point Scale's unit
\* is recorded by the first query that brings one)
SharedArgs ==
    {[points |-> <<Array(Wholes(<<0, 1, 16>>), m[1])>>,
      values |-> Array(Wholes(<<-4, 0, 4>>), "s"),
      points_scale |-> <<m[2]>>, values_scale |-> m[3],
      extrapolate |-> TRUE, axis |-> m[4], kwargs |-> Options(Unset, Unset)] :
        m \in {<<"m", "sqrt", "lin", "None">>, <<"m", "lin", "sqrt", "0">>,
               <<NoUnit, "sqrt", "lin", "None">>}}

\* the queries: coordinates in the grid's unit, in another unit of the same
\* dimension, and in a unit of another dimension
SharedQueries ==
    {[points |-> Array(<<Whole(4)>>, "m"), clip |-> FALSE],
     [points |-> Array(<<Rat(25, 1), Whole(1600)>>, "cm"), clip |-> TRUE],
     [points |-> Array(<<Whole(1)>>, "s"), clip |-> FALSE]}

InitConcurrent ==
    /\ \E a \in SharedArgs :
          /\ args = a
          /\ interp = ScaledRegularGridInterpolator_init(a.points, a.values,
                         a.points_scale, a.values_scale, a.extrapolate, a.axis,
                         a.kwargs).self
    /\ outcome = NoOutcome
    /\ sc = NewScale("none")
    /\ scan = NoScan
    /\ threads = [t \in ThreadIds |-> Idle]

NextConcurrent ==
    \E t \in ThreadIds :
        \/ \E q \in SharedQueries : Start(t, q.points, q.clip)
        \/ TestUnit(t)
        \/ Convert(t)
        \/ Record(t)
        \/ CallEngine(t)
        \/ Invert(t)
        \/ ClipAndReturn(t)
        \/ Complete(t)

SpecConcurrent == InitConcurrent /\ [][NextConcurrent]_vars

--------------------------------------------------------------------------
(* Properties of concurrent queries (checked under SpecConcurrent) *)

\* the query of thread t, run alone on the interpolator it found
Alone(t) ==
    ScaledRegularGridInterpolator_call(threads[t].at, <<threads[t].points>>,
                                       "linear", threads[t].clip, {})

\* C9: once every Scale's unit has been established by a completed call,
\* queries running concurrently (in any interleaving) write nothing: the
\* interpolator (its Scales, axis and engine) stays as each query found it, no
\* query assigns a Scale's unit, and each query returns or raises exactly what
\* it does when run alone.
C9_EstablishedQueriesAreReadOnly ==
    \A t \in ThreadIds :
        (InFlight(t) /\ threads[t].clean) =>
            /\ interp = threads[t].at
            /\ ~threads[t].wrote
            /\ Finished(t) =>
                  /\ threads[t].status = Alone(t).status
                  /\ threads[t].value = Alone(t).value
                  /\ threads[t].unit = Alone(t).unit
                  /\ Alone(t).self = threads[t].at

\* two clean queries in different units are in flight at once, one past the
\* Scale's __call__ and one finished with a result in the values' unit
C9_Witness ==
    /\ threads[1].clean /\ threads[2].clean
    /\ threads[1].points.unit = "m" /\ threads[2].points.unit = "cm"
    /\ threads[1].pc = "line92"
    /\ threads[2].pc = "returned" /\ threads[2].unit = "s"
    /\ threads[2].value = <<Whole(0), Whole(4)>>

\* without established units the queries do write: one recorded a unit
C9_RaceWitness ==
    \E t \in ThreadIds : InFlight(t) /\ ~threads[t].clean /\ threads[t].wrote

==========================================================================
